---- MODULE Spec2Model ----
(***************************************************************************)
(* State machine of frontend/src/App.jsx: the App component (panel flags   *)
(* and the history refresh counter), the AppContent component mounted on   *)
(* the /app route (model selection, status message, selector visibility),  *)
(* the setTimeout callbacks that clear the status message, and the Upload  *)
(* child that reports success through its onSuccess prop.                  *)
(*                                                                         *)
(* components/Upload, components/History and components/DeleteHistory are  *)
(* imported by App.jsx but defined elsewhere; what Upload does between the *)
(* user's click and the onSuccess call follows spec.md sections 4.3, 5, 6. *)
(* An upload keeps the onSuccess closure of the render it was triggered    *)
(* in, so the handleUpload that runs on success reads the selectedModel of *)
(* that render and its setters address the instance that rendered it.      *)
(***************************************************************************)
EXTENDS Integers, Sequences, FiniteSets, TLC

VARIABLES
    \* ---- App (App.jsx:13-15): lives as long as the page
    showHistory,        \* useState(false)
    showDelete,         \* useState(false)
    historyTrigger,     \* useState(0)
    \* ---- router: is the /app element mounted, and which instance is it
    mounted,            \* TRUE while the location is /app
    gen,                \* number of AppContent instances created so far
    \* ---- AppContent (App.jsx:60-62): state of the instance `gen`
    selectedModel,      \* useState("")
    modelMessage,       \* useState("")
    showModelSelection, \* useState(true)
    \* ---- browser timer queue: callbacks scheduled by setTimeout(..., 1000)
    timers,             \* sequence of [gen, show], oldest first
    \* ---- Upload child and the external services
    pending,            \* classify calls waiting at the network boundary: [model, gen]
    records,            \* classification records held by the history service
    \* ---- history variables used to state the claims
    msgShow,            \* id of the show call that set the displayed message (0: none)
    nSuccess,           \* uploads that passed the gate of handleUpload
    lastSelected,       \* value of the most recent select on this instance
    lastOp,             \* the event handled last
    delBefore           \* showDelete before the event handled last

vars == << showHistory, showDelete, historyTrigger, mounted, gen, selectedModel,
           modelMessage, showModelSelection, timers, pending,
           records, msgShow, nSuccess, lastSelected, lastOp, delBefore >>

appVars     == << showHistory, showDelete, historyTrigger >>
contentVars == << selectedModel, modelMessage, showModelSelection >>

\* ---------------------------------------------------------------- bounds
MaxTimers  == 2     \* pending setTimeout callbacks
MaxTrigger == 2     \* cap on historyTrigger
MaxRecords == 2     \* cap on stored classification records
MaxMounts  == 2     \* AppContent instances per page load
MaxPending == 2     \* cap on uploads in flight (reached only without the busy guard)

\* ------------------------------------------------------------- constants
\* <option value=...> of the model dropdown
ModelOptions == {"", "resnet", "efficientnet", "mobilenet"}

\* `Model "${model}" selected!`
ModelSelectedMessage(model) == "Model \"" \o model \o "\" selected!"

ModelRequiredMessage == "Please select a model before uploading!"

\* ------------------------------------------------------------- helpers
\* A state setter of AppContent instance g takes effect only while that
\* instance is the mounted one; on an unmounted instance it is a no-op.
Live(g) == mounted /\ g = gen

RECURSIVE ShowIds(_)
ShowIds(s) == IF s = << >> THEN {} ELSE {Head(s).show} \cup ShowIds(Tail(s))

\* Identity of a new setTimeout call: distinct from every timer still queued
\* and from the call that owns the displayed message.
FreshShow == CHOOSE i \in 1..(MaxTimers + 2) : i \notin (ShowIds(timers) \cup {msgShow})

\* setTimeout(() => setModelMessage(""), 1000) called by instance g
setTimeout(g, id) == Append(timers, [gen |-> g, show |-> id])


\* ------------------------------------------------------------------ App
\* setHistoryTrigger((prev) => prev + 1)
handleUploadSuccess_twice(prev) == prev + 2

handleUploadSuccess(prev) == prev + 1

\* onClick={() => setShowDelete(!showDelete)}
toggleDelete_setTrue(d) == TRUE

toggleDelete(d) == ~d

\* onClick={() => setShowHistory(true)}
openHistory(h) == TRUE

\* onClick={() => setShowHistory(false)}
closeHistory(h) == FALSE

\* ----------------------------------------------------------- AppContent
\* const [selectedModel, ...] = useState(""); const [modelMessage, ...] =
\* useState(""); const [showModelSelection, ...] = useState(true)
InitialSelectedModel == ""

InitialModelMessage == ""

InitialShowModelSelection == TRUE

\* onChange of the dropdown, run by the mounted instance
handleModelChange_keepOnEmpty(model) ==
    /\ selectedModel' = IF model = "" THEN selectedModel ELSE model
    /\ modelMessage' = ModelSelectedMessage(model)
    /\ msgShow' = FreshShow
    /\ timers' = setTimeout(gen, FreshShow)
    /\ UNCHANGED showModelSelection

handleModelChange_staleMessage(model) ==
    /\ selectedModel' = model
    /\ modelMessage' = ModelSelectedMessage(selectedModel)
    /\ msgShow' = FreshShow
    /\ timers' = setTimeout(gen, FreshShow)
    /\ UNCHANGED showModelSelection

handleModelChange(model) ==
    /\ selectedModel' = model
    /\ modelMessage' = ModelSelectedMessage(model)
    /\ msgShow' = FreshShow
    /\ timers' = setTimeout(gen, FreshShow)
    /\ UNCHANGED showModelSelection

\* The handleUpload closure created by a render of instance g in which
\* selectedModel was `model`.
handleUpload_noReturn(model, g) ==
    /\ modelMessage' = IF model = "" /\ Live(g) THEN ModelRequiredMessage ELSE modelMessage
    /\ msgShow' = IF model = "" /\ Live(g) THEN FreshShow ELSE msgShow
    /\ timers' = IF model = "" THEN setTimeout(g, FreshShow) ELSE timers
    /\ showModelSelection' = IF Live(g) THEN FALSE ELSE showModelSelection
    /\ historyTrigger' = handleUploadSuccess(historyTrigger)
    /\ UNCHANGED selectedModel

handleUpload_hideFirst(model, g) ==
    /\ showModelSelection' = IF Live(g) THEN FALSE ELSE showModelSelection
    /\ IF model = ""
       THEN /\ modelMessage' = IF Live(g) THEN ModelRequiredMessage ELSE modelMessage
            /\ msgShow' = IF Live(g) THEN FreshShow ELSE msgShow
            /\ timers' = setTimeout(g, FreshShow)
            /\ UNCHANGED << selectedModel, historyTrigger >>
       ELSE /\ historyTrigger' = handleUploadSuccess(historyTrigger)
            /\ UNCHANGED << selectedModel, modelMessage, msgShow, timers >>

handleUpload(model, g) ==
    IF model = ""
    THEN /\ modelMessage' = IF Live(g) THEN ModelRequiredMessage ELSE modelMessage
         /\ msgShow' = IF Live(g) THEN FreshShow ELSE msgShow
         /\ timers' = setTimeout(g, FreshShow)
         /\ UNCHANGED << selectedModel, showModelSelection, historyTrigger >>
    ELSE /\ showModelSelection' = IF Live(g) THEN FALSE ELSE showModelSelection
         /\ historyTrigger' = handleUploadSuccess(historyTrigger)
         /\ UNCHANGED << selectedModel, modelMessage, msgShow, timers >>

\* () => { setModelMessage(""); } scheduled by instance t.gen
expire_keepsMessage(t) ==
    /\ modelMessage' = modelMessage
    /\ msgShow' = msgShow

expire(t) ==
    /\ modelMessage' = IF Live(t.gen) THEN "" ELSE modelMessage
    /\ msgShow' = IF Live(t.gen) THEN 0 ELSE msgShow

\* ------------------------------------------------------------- actions
Init ==
    /\ showHistory = FALSE
    /\ showDelete = FALSE
    /\ historyTrigger = 0
    /\ mounted = FALSE
    /\ gen = 0
    /\ selectedModel = InitialSelectedModel
    /\ modelMessage = InitialModelMessage
    /\ showModelSelection = InitialShowModelSelection
    /\ timers = << >>
    /\ pending = << >>
    /\ records = 0
    /\ msgShow = 0
    /\ nSuccess = 0
    /\ lastSelected = ""
    /\ lastOp = "other"
    /\ delBefore = FALSE

\* Every event records what it was; a click on the delete button also
\* records the showDelete it started from.
Event(op) ==
    /\ lastOp' = op
    /\ delBefore' = IF op = "toggleDelete" THEN showDelete ELSE FALSE

\* Navigation to /app: <Route path="/app" element={<AppContent .../>}/>
\* creates a new instance whose useState initialisers run again.
Mount ==
    /\ ~mounted
    /\ gen < MaxMounts
    /\ mounted' = TRUE
    /\ gen' = gen + 1
    /\ selectedModel' = InitialSelectedModel
    /\ modelMessage' = InitialModelMessage
    /\ showModelSelection' = InitialShowModelSelection
    /\ msgShow' = 0
    /\ lastSelected' = ""
    /\ Event("other")
    /\ UNCHANGED << appVars, timers, pending, records, nSuccess >>

\* Navigation away from /app (to /login or /signup): the instance is
\* unmounted.  Its last state is kept in the variables but nothing reads or
\* writes it any more; timers and uploads it started stay queued.
Unmount ==
    /\ mounted
    /\ mounted' = FALSE
    /\ Event("other")
    /\ UNCHANGED << appVars, gen, contentVars, timers, pending,
                    records, msgShow, nSuccess, lastSelected >>

\* The user picks another option of the dropdown, rendered only while
\* showModelSelection holds.
Select_alwaysRendered(model) ==
    /\ mounted
    /\ model # selectedModel
    /\ Len(timers) < MaxTimers
    /\ handleModelChange(model)
    /\ lastSelected' = model
    /\ Event("other")
    /\ UNCHANGED << appVars, mounted, gen, pending, records, nSuccess >>

Select(model) ==
    /\ mounted
    /\ showModelSelection
    /\ model # selectedModel
    /\ Len(timers) < MaxTimers
    /\ handleModelChange(model)
    /\ lastSelected' = model
    /\ Event("other")
    /\ UNCHANGED << appVars, mounted, gen, pending, records, nSuccess >>

OpenHistory ==
    /\ mounted
    /\ showHistory' = openHistory(showHistory)
    /\ Event("openHistory")
    /\ UNCHANGED << showDelete, historyTrigger, mounted, gen, contentVars, timers,
                    pending, records, msgShow, nSuccess, lastSelected >>

CloseHistory ==
    /\ mounted
    /\ showHistory' = closeHistory(showHistory)
    /\ Event("closeHistory")
    /\ UNCHANGED << showDelete, historyTrigger, mounted, gen, contentVars, timers,
                    pending, records, msgShow, nSuccess, lastSelected >>

ToggleDelete_closesHistory ==
    /\ mounted
    /\ showDelete' = toggleDelete(showDelete)
    /\ showHistory' = FALSE
    /\ Event("toggleDelete")
    /\ UNCHANGED << historyTrigger, mounted, gen, contentVars, timers,
                    pending, records, msgShow, nSuccess, lastSelected >>

ToggleDelete ==
    /\ mounted
    /\ showDelete' = toggleDelete(showDelete)
    /\ Event("toggleDelete")
    /\ UNCHANGED << showHistory, historyTrigger, mounted, gen, contentVars, timers,
                    pending, records, msgShow, nSuccess, lastSelected >>

\* The oldest queued timeout runs.  All delays are 1000 ms, so callbacks run
\* in the order in which they were scheduled.
TimerFires ==
    /\ timers # << >>
    /\ expire(Head(timers))
    /\ timers' = Tail(timers)
    /\ Event("other")
    /\ UNCHANGED << appVars, mounted, gen, selectedModel, showModelSelection,
                    pending, records, nSuccess, lastSelected >>

\* --------------------------------------- Upload child and the services
RemoveAt(s, i) == SubSeq(s, 1, i - 1) \o SubSeq(s, i + 1, Len(s))

\* The user triggers the upload in <Upload onSuccess={handleUpload}
\* selectedModel={selectedModel}/>.  Upload sends the image and its
\* selectedModel prop to classify(image, modelId) and keeps the onSuccess
\* closure of the render it was triggered in.  While an upload is
\* outstanding the trigger is disabled (busy guard).
StartUpload_noBusyGuard ==
    /\ mounted
    /\ Len(pending) < MaxPending
    /\ historyTrigger < MaxTrigger
    /\ records < MaxRecords
    /\ pending' = Append(pending, [model |-> selectedModel, gen |-> gen])
    /\ Event("other")
    /\ UNCHANGED << appVars, mounted, gen, contentVars, timers, records, msgShow,
                    nSuccess, lastSelected >>

StartUpload ==
    /\ mounted
    /\ pending = << >>
    /\ historyTrigger < MaxTrigger
    /\ records < MaxRecords
    /\ pending' = Append(pending, [model |-> selectedModel, gen |-> gen])
    /\ Event("other")
    /\ UNCHANGED << appVars, mounted, gen, contentVars, timers, records, msgShow,
                    nSuccess, lastSelected >>

\* classify reports success for the i-th outstanding upload: the service
\* has stored a record, and Upload calls the onSuccess closure it holds.
UploadSucceeds(i) ==
    /\ i \in 1..Len(pending)
    /\ pending[i].model = "" => Len(timers) < MaxTimers
    /\ handleUpload(pending[i].model, pending[i].gen)
    /\ pending' = RemoveAt(pending, i)
    /\ records' = records + 1
    /\ nSuccess' = IF pending[i].model # "" THEN nSuccess + 1 ELSE nSuccess
    /\ Event("other")
    /\ UNCHANGED << showHistory, showDelete, mounted, gen, lastSelected >>

\* classify reports failure: onSuccess is not called.
UploadFails_callsOnSuccess(i) ==
    /\ i \in 1..Len(pending)
    /\ pending[i].model = "" => Len(timers) < MaxTimers
    /\ handleUpload(pending[i].model, pending[i].gen)
    /\ pending' = RemoveAt(pending, i)
    /\ Event("uploadFailed")
    /\ UNCHANGED << showHistory, showDelete, mounted, gen, records,
                    nSuccess, lastSelected >>

UploadFails(i) ==
    /\ i \in 1..Len(pending)
    /\ pending' = RemoveAt(pending, i)
    /\ Event("uploadFailed")
    /\ UNCHANGED << appVars, mounted, gen, contentVars, timers, records,
                    msgShow, nSuccess, lastSelected >>

\* {showDelete && <DeleteHistory />}: the delete panel receives no props, so
\* all it can reach is the delete service.
DeleteRecords ==
    /\ mounted
    /\ showDelete
    /\ records > 0
    /\ records' = 0
    /\ Event("other")
    /\ UNCHANGED << appVars, mounted, gen, contentVars, timers, pending,
                    msgShow, nSuccess, lastSelected >>

\* ------------------------------------------------------- specification
Next ==
    \/ Mount
    \/ Unmount
    \/ \E model \in ModelOptions : Select(model)
    \/ OpenHistory
    \/ CloseHistory
    \/ ToggleDelete
    \/ TimerFires
    \/ StartUpload
    \/ \E i \in 1..MaxPending : UploadSucceeds(i)
    \/ \E i \in 1..MaxPending : UploadFails(i)
    \/ DeleteRecords

Spec == Init /\ [][Next]_vars

\* The browser's event loop runs every timeout that is due: a queued
\* callback is not postponed for ever.
FairSpec == Spec /\ WF_vars(TimerFires)

TypeOK ==
    /\ showHistory \in BOOLEAN /\ showDelete \in BOOLEAN
    /\ historyTrigger \in Nat
    /\ mounted \in BOOLEAN /\ gen \in 0..MaxMounts
    /\ selectedModel \in ModelOptions
    /\ showModelSelection \in BOOLEAN
    /\ Len(timers) <= MaxTimers
    /\ \A i \in 1..Len(pending) : pending[i].model \in ModelOptions
    /\ records \in Nat

\* --------------------------------------------------------------- claims

C2_OnlyLatestShowExpires ==
    [][(TimerFires /\ modelMessage # "" /\ modelMessage' = "")
          => Head(timers).show = msgShow]_vars

\* C3: historyTrigger equals the number of uploads that succeeded while a
\* model was selected; each of them adds exactly 1.
C3_TriggerCountsSuccesses == historyTrigger = nSuccess

C3_Witness == nSuccess = 2 /\ historyTrigger = 2 /\ pending = << >>

\* C4: once the model selector has been hidden it stays hidden in every
\* later state of the session.
C4_HiddenStaysHidden ==
    [][showModelSelection = FALSE => showModelSelection' = FALSE]_vars

\* C5: an upload rejected by the gate (no model selected) shows the "model
\* required" message on the instance that is displayed and changes neither
\* historyTrigger, selectedModel, showModelSelection, showHistory nor
\* showDelete.
C5_RejectedUploadOnlyShowsMessage ==
    [][\A i \in 1..MaxPending :
          (UploadSucceeds(i) /\ pending[i].model = "")
             => /\ historyTrigger' = historyTrigger
                /\ selectedModel' = selectedModel
                /\ showModelSelection' = showModelSelection
                /\ showHistory' = showHistory
                /\ showDelete' = showDelete
                /\ Live(pending[i].gen) => modelMessage' = ModelRequiredMessage]_vars

C5_Witness ==
    /\ mounted
    /\ modelMessage = ModelRequiredMessage
    /\ showModelSelection
    /\ historyTrigger = 0

\* C6: at most one upload is outstanding at the network boundary at any
\* time.
C6_AtMostOneOutstanding == Len(pending) <= 1

C6_Witness == mounted /\ Len(pending) = 1 /\ historyTrigger = 1

\* C7: an upload the service reports as failed changes neither
\* showModelSelection nor historyTrigger.
C7_FailedUploadRollsBack ==
    [][\A i \in 1..MaxPending :
          UploadFails(i) => /\ showModelSelection' = showModelSelection
                            /\ historyTrigger' = historyTrigger]_vars

C7_Witness ==
    /\ lastOp = "uploadFailed"
    /\ mounted
    /\ selectedModel # ""
    /\ showModelSelection
    /\ historyTrigger = 0

\* C8: selectedModel always equals the value of the most recent select on
\* the instance ("" before any select); timers, uploads and panel actions
\* do not alter it.
C8_SelectedIsLastSelect == selectedModel = lastSelected

C8_Witness ==
    /\ lastSelected = "mobilenet"
    /\ selectedModel = "mobilenet"
    /\ showModelSelection = FALSE
    /\ timers = << >>
    /\ showDelete

\* C9: a second click on the delete button right after a first one restores
\* showDelete, and closing the sidebar right after opening it leaves
\* showHistory false, whatever the other flag is.
C9_PanelRoundTrips ==
    [][/\ (lastOp = "toggleDelete" /\ ToggleDelete) => showDelete' = delBefore
       /\ (lastOp = "openHistory" /\ CloseHistory) => showHistory' = FALSE]_vars

C9_Witness ==
    /\ lastOp = "toggleDelete"
    /\ delBefore = TRUE
    /\ showDelete = FALSE
    /\ showHistory = TRUE

\* C10: historyTrigger starts at 0 and changes only in a step in which an
\* upload passes the gate, and then by exactly +1; it never decreases.
C10_TriggerMonotonicSingleWriter ==
    /\ historyTrigger = 0
    /\ [][historyTrigger' # historyTrigger
            => /\ historyTrigger' = historyTrigger + 1
               /\ \E i \in 1..MaxPending :
                     UploadSucceeds(i) /\ pending[i].model # ""]_vars

C10_Witness == historyTrigger = 2 /\ records = 0 /\ mounted = FALSE

\* C11: the panel handlers touch only their own flag, and nothing else
\* touches the flags: a delete-button click leaves showHistory alone, the
\* sidebar buttons leave showDelete alone, none of the three changes
\* selectedModel, modelMessage, showModelSelection or historyTrigger, and
\* either flag changes only in a step of one of the three.
C11_PanelFrame ==
    [][/\ ToggleDelete => showHistory' = showHistory
       /\ (OpenHistory \/ CloseHistory) => showDelete' = showDelete
       /\ (ToggleDelete \/ OpenHistory \/ CloseHistory)
             => /\ selectedModel' = selectedModel
                /\ modelMessage' = modelMessage
                /\ showModelSelection' = showModelSelection
                /\ historyTrigger' = historyTrigger
       /\ (showHistory' # showHistory \/ showDelete' # showDelete)
             => (ToggleDelete \/ OpenHistory \/ CloseHistory)]_vars

C11_Witness ==
    /\ lastOp = "toggleDelete"
    /\ showDelete
    /\ showHistory
    /\ selectedModel = "resnet"
    /\ modelMessage = ModelSelectedMessage("resnet")
    /\ historyTrigger = 1

\* C12: a status message on display does not stay for ever: once shown, it
\* is eventually gone (cleared by a timeout, or the view dismissed), and an
\* empty message becomes non-empty only by a new show (a select or a
\* rejected upload).
C12_MessageSelfExpires ==
    /\ (mounted /\ modelMessage # "") ~> (~mounted \/ modelMessage = "")
    /\ [][(modelMessage = "" /\ modelMessage' # "")
             => \/ \E model \in ModelOptions : Select(model)
                \/ \E i \in 1..MaxPending :
                      UploadSucceeds(i) /\ pending[i].model = ""]_vars

C12_Witness ==
    /\ mounted
    /\ modelMessage = ""
    /\ selectedModel = "efficientnet"
    /\ showModelSelection
    /\ timers = << >>
    /\ pending = << >>

\* C13: a select of a non-empty model stores the model and sets the "Model
\* selected" message naming that model in the same step.
C13_SelectShowsMessage ==
    [][\A model \in ModelOptions \ {""} :
          Select(model) => /\ selectedModel' = model
                           /\ modelMessage' = ModelSelectedMessage(model)]_vars

C13_Witness ==
    /\ mounted
    /\ selectedModel = "mobilenet"
    /\ modelMessage = ModelSelectedMessage("mobilenet")
    /\ Len(timers) = 2

\* C14: no expiry callback runs against an instance that is no longer the
\* mounted one: every timeout that fires belongs to the live instance.
C14_NoTimerOnDisposed == [][TimerFires => Live(Head(timers).gen)]_vars

\* C15: whenever historyTrigger > 0 the model selector is not on display,
\* also after the view has been unmounted and mounted again.
C15_TriggerImpliesHidden == historyTrigger > 0 => ~(mounted /\ showModelSelection)

\* C16: within a mount, an empty selectedModel implies that the selector is
\* still displayed (a hidden selector implies a non-empty model).
C16_EmptyModelImpliesVisible == (mounted /\ selectedModel = "") => showModelSelection

\* C17: once the selector is hidden, selectedModel does not change for the
\* rest of the mount, and every upload started from then on is sent with
\* that model.
C17_ModelFrozenOnceHidden ==
    [][/\ (mounted /\ ~showModelSelection /\ mounted' /\ gen' = gen)
             => selectedModel' = selectedModel
       /\ (StartUpload /\ ~showModelSelection)
             => /\ selectedModel' = selectedModel
                /\ pending'[Len(pending')].model = selectedModel]_vars

C17_Witness ==
    /\ mounted
    /\ ~showModelSelection
    /\ selectedModel = "efficientnet"
    /\ historyTrigger = 1
    /\ pending = << [model |-> "efficientnet", gen |-> gen] >>

====
